---- MODULE Spec2Model ----
(***************************************************************************)
(* NGP automation agent (src/ngp_agent.py).                                *)
(*                                                                         *)
(* The agent holds three tables: the form registry (analyze_ngp_forms),    *)
(* the master Notion schema (create_master_notion_schema) and the four     *)
(* Zapier blueprints (create_zapier_blueprints).  The blueprints are the   *)
(* only place where a form submission is turned into a change of the       *)
(* client database, so the reconciliation behaviour modelled here is the   *)
(* step list of each blueprint, run from its trigger to its last store     *)
(* step, against a database of Notion pages.                               *)
(*                                                                         *)
(* Two specifications share the definitions.  Spec runs whole submissions, *)
(* one after the other, against the database of the deployed agent.        *)
(* SystemSpec starts at main: run_complete_setup one statement or store    *)
(* response at a time, then up to two Zap runs at once, one step of the    *)
(* step list at a time, against a store that may or may not enforce a      *)
(* unique key and may stop answering.                                      *)
(*                                                                         *)
(* Field values are tuples of one-character strings, so that trimming and  *)
(* lower-casing are computed rather than assumed.  A field the form        *)
(* delivers blank and a field it does not deliver are the same value,      *)
(* Empty: a template "{{1.f}}" renders both as the empty text.             *)
(***************************************************************************)
EXTENDS Integers, Sequences, FiniteSets, TLC

VARIABLES
  database,      \* the Notion database: the sequence of its pages
  zap_run,       \* the task history entry of the Zap run that ended last
  runs,          \* how many submissions have been processed
  all_accepted,  \* history: every payload so far passes the specification's
                 \* validation (no required field blank, key not blank)
  notion_token,        \* self.notion_token: whether NOTION_TOKEN is set
  notion_database_id,  \* self.notion_database_id
  setup_complete,      \* self.setup_complete
  tables,              \* which of self.forms_analysis, self.master_schema and
                       \* self.zapier_blueprints have been filled
  database_created,    \* run_complete_setup's local of that name
  pc,                  \* where main is
  store_calls,         \* the requests the method in progress has posted
  store,               \* the store: whether it enforces unique keys, and
                       \* whether it still answers
  database_response,   \* create_notion_database: the request it posted last
                       \* and what came back
  blueprints_database_id,  \* the "database_id" setting of the blueprints' steps
  zaps                 \* the Zap runs in progress, one store step at a time

\* The agent object, main's position and the store.
agent_vars ==
  <<notion_token, notion_database_id, setup_complete, tables,
    database_created, pc, store_calls, store, database_response,
    blueprints_database_id>>

vars == <<database, zap_run, runs, all_accepted, agent_vars, zaps>>

\* ------------------------------------------------------------------------
\* Bounds of the model
\* ------------------------------------------------------------------------

\* Number of form submissions delivered to the Zaps in one behaviour.
MaxRuns == 3

\* ------------------------------------------------------------------------
\* analyze_ngp_forms: the form registry
\* ------------------------------------------------------------------------

info_request_fields ==
  <<
   [field |-> "first_name", required |-> TRUE, notion_property |-> "First Name", primary_key |-> FALSE],
   [field |-> "last_name", required |-> TRUE, notion_property |-> "Last Name", primary_key |-> FALSE],
   [field |-> "email", required |-> TRUE, notion_property |-> "Email (Primary Key)", primary_key |-> TRUE],
   [field |-> "phone", required |-> TRUE, notion_property |-> "Phone", primary_key |-> FALSE],
   [field |-> "challenges", required |-> TRUE, notion_property |-> "Current Challenges", primary_key |-> FALSE],
   [field |-> "referral_source", required |-> TRUE, notion_property |-> "How They Found Us", primary_key |-> FALSE],
   [field |-> "preferred_contact", required |-> TRUE, notion_property |-> "Preferred Contact", primary_key |-> FALSE]
  >>

tech_readiness_fields ==
  <<
   [field |-> "email", required |-> TRUE, notion_property |-> "Email (Primary Key)", primary_key |-> TRUE],
   [field |-> "first_name", required |-> TRUE, notion_property |-> "First Name", primary_key |-> FALSE],
   [field |-> "last_name", required |-> TRUE, notion_property |-> "Last Name", primary_key |-> FALSE],
   [field |-> "smartphone", required |-> FALSE, notion_property |-> "Smartphone", primary_key |-> FALSE],
   [field |-> "computer", required |-> FALSE, notion_property |-> "Computer", primary_key |-> FALSE],
   [field |-> "tablet", required |-> FALSE, notion_property |-> "Tablet", primary_key |-> FALSE],
   [field |-> "internet", required |-> FALSE, notion_property |-> "Internet Provider", primary_key |-> FALSE],
   [field |-> "comfort_calls", required |-> FALSE, notion_property |-> "Comfort: Phone Calls", primary_key |-> FALSE],
   [field |-> "comfort_texts", required |-> FALSE, notion_property |-> "Comfort: Text Messages", primary_key |-> FALSE],
   [field |-> "comfort_email", required |-> FALSE, notion_property |-> "Comfort: Email", primary_key |-> FALSE],
   [field |-> "comfort_internet", required |-> FALSE, notion_property |-> "Comfort: Internet Browsing", primary_key |-> FALSE],
   [field |-> "comfort_photos", required |-> FALSE, notion_property |-> "Comfort: Taking Photos", primary_key |-> FALSE],
   [field |-> "comfort_apps", required |-> FALSE, notion_property |-> "Comfort: Using Apps", primary_key |-> FALSE],
   [field |-> "comfort_banking", required |-> FALSE, notion_property |-> "Comfort: Online Banking", primary_key |-> FALSE],
   [field |-> "comfort_video", required |-> FALSE, notion_property |-> "Comfort: Video Calls", primary_key |-> FALSE],
   [field |-> "learning_goals", required |-> FALSE, notion_property |-> "Learning Goals", primary_key |-> FALSE],
   [field |-> "tech_frustrations", required |-> FALSE, notion_property |-> "Technology Frustrations", primary_key |-> FALSE],
   [field |-> "current_support", required |-> FALSE, notion_property |-> "Current Tech Support People", primary_key |-> FALSE],
   [field |-> "learning_style", required |-> FALSE, notion_property |-> "Learning Style Preferences", primary_key |-> FALSE]
  >>

service_agreement_fields ==
  <<
   [field |-> "email", required |-> TRUE, notion_property |-> "Email (Primary Key)", primary_key |-> TRUE],
   [field |-> "first_name", required |-> TRUE, notion_property |-> "First Name", primary_key |-> FALSE],
   [field |-> "last_name", required |-> TRUE, notion_property |-> "Last Name", primary_key |-> FALSE],
   [field |-> "phone", required |-> TRUE, notion_property |-> "Phone", primary_key |-> FALSE],
   [field |-> "street_address", required |-> TRUE, notion_property |-> "Street Address", primary_key |-> FALSE],
   [field |-> "city", required |-> TRUE, notion_property |-> "City", primary_key |-> FALSE],
   [field |-> "state", required |-> FALSE, notion_property |-> "State", primary_key |-> FALSE],
   [field |-> "zip_code", required |-> TRUE, notion_property |-> "ZIP Code", primary_key |-> FALSE],
   [field |-> "emergency_contact_name", required |-> TRUE, notion_property |-> "Emergency Contact Name", primary_key |-> FALSE],
   [field |-> "emergency_contact_phone", required |-> TRUE, notion_property |-> "Emergency Contact Phone", primary_key |-> FALSE],
   [field |-> "emergency_relationship", required |-> TRUE, notion_property |-> "Emergency Contact Relationship", primary_key |-> FALSE],
   [field |-> "service_start_date", required |-> FALSE, notion_property |-> "Service Start Date", primary_key |-> FALSE],
   [field |-> "preferred_contact_method", required |-> FALSE, notion_property |-> "Preferred Contact", primary_key |-> FALSE],
   [field |-> "preferred_contact_times", required |-> FALSE, notion_property |-> "Best Times to Contact", primary_key |-> FALSE]
  >>

client_feedback_fields ==
  <<
   [field |-> "email", required |-> TRUE, notion_property |-> "Email (Primary Key)", primary_key |-> TRUE],
   [field |-> "first_name", required |-> TRUE, notion_property |-> "First Name", primary_key |-> FALSE],
   [field |-> "last_name", required |-> TRUE, notion_property |-> "Last Name", primary_key |-> FALSE],
   [field |-> "service_date", required |-> FALSE, notion_property |-> "Last Session Date", primary_key |-> FALSE],
   [field |-> "overall_rating", required |-> FALSE, notion_property |-> "Latest Overall Rating (1-5)", primary_key |-> FALSE],
   [field |-> "confidence_before", required |-> FALSE, notion_property |-> "Confidence Before (1-5)", primary_key |-> FALSE],
   [field |-> "confidence_after", required |-> FALSE, notion_property |-> "Confidence After (1-5)", primary_key |-> FALSE],
   [field |-> "would_recommend", required |-> FALSE, notion_property |-> "Would Recommend NGP", primary_key |-> FALSE],
   [field |-> "most_valuable_skill", required |-> FALSE, notion_property |-> "Most Valuable Skill Learned", primary_key |-> FALSE],
   [field |-> "additional_comments", required |-> FALSE, notion_property |-> "Latest Feedback Comments", primary_key |-> FALSE],
   [field |-> "additional_services", required |-> FALSE, notion_property |-> "Suggested Additional Services", primary_key |-> FALSE],
   [field |-> "referral_partners", required |-> FALSE, notion_property |-> "Referral Partner Suggestions", primary_key |-> FALSE]
  >>

\* A registry in which the feedback table flags a second field as primary key.
forms_analysis_second_key ==
  [kind \in {"info_request", "tech_readiness", "service_agreement", "client_feedback"} |->
     CASE kind = "info_request" ->
            [fields |-> info_request_fields, status |-> "Lead - Info Requested"]
       [] kind = "tech_readiness" ->
            [fields |-> tech_readiness_fields, status |-> "Assessment Complete"]
       [] kind = "service_agreement" ->
            [fields |-> service_agreement_fields, status |-> "Active Client"]
       [] kind = "client_feedback" ->
            [fields |-> [client_feedback_fields EXCEPT ![2].primary_key = TRUE],
             status |-> "Feedback Received"]]

\* self.forms_analysis: kind -> its field table and the status it produces
\* ('status_created' for info_request, 'status_update' for the others).
forms_analysis ==
  [kind \in {"info_request", "tech_readiness", "service_agreement", "client_feedback"} |->
     CASE kind = "info_request" ->
            [fields |-> info_request_fields, status |-> "Lead - Info Requested"]
       [] kind = "tech_readiness" ->
            [fields |-> tech_readiness_fields, status |-> "Assessment Complete"]
       [] kind = "service_agreement" ->
            [fields |-> service_agreement_fields, status |-> "Active Client"]
       [] kind = "client_feedback" ->
            [fields |-> client_feedback_fields, status |-> "Feedback Received"]]

Kinds == DOMAIN forms_analysis

Range(s) == {s[i] : i \in DOMAIN s}

\* The source fields a kind's table names.
FieldNames(kind) == {m.field : m \in Range(forms_analysis[kind].fields)}

\* The source fields a kind's table flags 'required': True.
RequiredFields(kind) ==
  {m.field : m \in {x \in Range(forms_analysis[kind].fields) : x.required}}

\* The canonical attributes (notion_property) a kind's table targets.
MappedProperties(kind) ==
  {m.notion_property : m \in Range(forms_analysis[kind].fields)}

\* The field flagged 'primary_key': True; it is "email" in all four tables.
KeyField(kind) ==
  (CHOOSE m \in Range(forms_analysis[kind].fields) : m.primary_key).field

\* ------------------------------------------------------------------------
\* create_master_notion_schema: the database schema
\* ------------------------------------------------------------------------

master_schema_properties ==
  <<
   [name |-> "Email (Primary Key)", type |-> "email"],
   [name |-> "First Name", type |-> "rich_text"],
   [name |-> "Last Name", type |-> "rich_text"],
   [name |-> "Full Name", type |-> "formula"],
   [name |-> "Phone", type |-> "phone_number"],
   [name |-> "Street Address", type |-> "rich_text"],
   [name |-> "City", type |-> "rich_text"],
   [name |-> "State", type |-> "select"],
   [name |-> "ZIP Code", type |-> "number"],
   [name |-> "Client Status", type |-> "select"],
   [name |-> "How They Found Us", type |-> "select"],
   [name |-> "First Contact Date", type |-> "date"],
   [name |-> "Service Start Date", type |-> "date"],
   [name |-> "Preferred Contact", type |-> "select"],
   [name |-> "Best Times to Contact", type |-> "rich_text"],
   [name |-> "Current Challenges", type |-> "multi_select"],
   [name |-> "Smartphone", type |-> "rich_text"],
   [name |-> "Computer", type |-> "rich_text"],
   [name |-> "Tablet", type |-> "rich_text"],
   [name |-> "Internet Provider", type |-> "rich_text"],
   [name |-> "Comfort: Phone Calls", type |-> "number"],
   [name |-> "Comfort: Text Messages", type |-> "number"],
   [name |-> "Comfort: Email", type |-> "number"],
   [name |-> "Comfort: Internet Browsing", type |-> "number"],
   [name |-> "Comfort: Taking Photos", type |-> "number"],
   [name |-> "Comfort: Using Apps", type |-> "number"],
   [name |-> "Comfort: Online Banking", type |-> "number"],
   [name |-> "Comfort: Video Calls", type |-> "number"],
   [name |-> "Average Comfort Level", type |-> "formula"],
   [name |-> "Learning Goals", type |-> "rich_text"],
   [name |-> "Technology Frustrations", type |-> "rich_text"],
   [name |-> "Current Tech Support People", type |-> "rich_text"],
   [name |-> "Learning Style Preferences", type |-> "multi_select"],
   [name |-> "Emergency Contact Name", type |-> "rich_text"],
   [name |-> "Emergency Contact Phone", type |-> "phone_number"],
   [name |-> "Emergency Contact Relationship", type |-> "rich_text"],
   [name |-> "Total Sessions", type |-> "number"],
   [name |-> "Last Session Date", type |-> "date"],
   [name |-> "Next Session Scheduled", type |-> "date"],
   [name |-> "Latest Overall Rating (1-5)", type |-> "number"],
   [name |-> "Confidence Before (1-5)", type |-> "number"],
   [name |-> "Confidence After (1-5)", type |-> "number"],
   [name |-> "Confidence Improvement", type |-> "formula"],
   [name |-> "Would Recommend NGP", type |-> "select"],
   [name |-> "Most Valuable Skill Learned", type |-> "rich_text"],
   [name |-> "Latest Feedback Comments", type |-> "rich_text"],
   [name |-> "Suggested Additional Services", type |-> "rich_text"],
   [name |-> "Referral Partner Suggestions", type |-> "rich_text"],
   [name |-> "Record Created", type |-> "created_time"],
   [name |-> "Last Updated", type |-> "last_edited_time"],
   [name |-> "Internal Notes", type |-> "rich_text"]
  >>

\* A "Client Status" select without the option the feedback Zap writes.
ClientStatusOptions_without_feedback ==
  << "Lead - Info Requested", "Assessment Complete", "Active Client",
     "Service Complete" >>

\* The options of the "Client Status" select, in the order the schema lists them.
ClientStatusOptions ==
  << "Lead - Info Requested", "Assessment Complete", "Active Client",
     "Service Complete", "Feedback Received" >>

PropertyNames == {p.name : p \in Range(master_schema_properties)}

\* Position of a status in the lifecycle order.
Rank(status) ==
  CHOOSE i \in 1..Len(ClientStatusOptions) : ClientStatusOptions[i] = status

\* ------------------------------------------------------------------------
\* create_zapier_blueprints: the "properties" of the store steps, each a
\* dictionary from property name to what is written: the template of a
\* trigger field "{{1.f}}", a Zapier value "{{zap_meta_...}}", or literal text
\* ------------------------------------------------------------------------

\* A create step that also passes a form field no table registers.
blueprint_1_properties_with_unmapped ==
  ("Email (Primary Key)" :> [from |-> "field", value |-> "email"]) @@
  ("First Name" :> [from |-> "field", value |-> "first_name"]) @@
  ("Last Name" :> [from |-> "field", value |-> "last_name"]) @@
  ("Phone" :> [from |-> "field", value |-> "phone"]) @@
  ("Client Status" :> [from |-> "literal", value |-> "Lead - Info Requested"]) @@
  ("How They Found Us" :> [from |-> "field", value |-> "referral_source"]) @@
  ("Preferred Contact" :> [from |-> "field", value |-> "preferred_contact"]) @@
  ("Current Challenges" :> [from |-> "field", value |-> "challenges"]) @@
  ("First Contact Date" :> [from |-> "meta", value |-> "zap_meta_human_now"]) @@
  ("Internal Notes" :> [from |-> "field", value |-> "newsletter_opt_in"])

blueprint_1_properties ==
  ("Email (Primary Key)" :> [from |-> "field", value |-> "email"]) @@
  ("First Name" :> [from |-> "field", value |-> "first_name"]) @@
  ("Last Name" :> [from |-> "field", value |-> "last_name"]) @@
  ("Phone" :> [from |-> "field", value |-> "phone"]) @@
  ("Client Status" :> [from |-> "literal", value |-> "Lead - Info Requested"]) @@
  ("How They Found Us" :> [from |-> "field", value |-> "referral_source"]) @@
  ("Preferred Contact" :> [from |-> "field", value |-> "preferred_contact"]) @@
  ("Current Challenges" :> [from |-> "field", value |-> "challenges"]) @@
  ("First Contact Date" :> [from |-> "meta", value |-> "zap_meta_human_now"])

blueprint_2_properties ==
  ("Client Status" :> [from |-> "literal", value |-> "Assessment Complete"]) @@
  ("Smartphone" :> [from |-> "field", value |-> "smartphone"]) @@
  ("Computer" :> [from |-> "field", value |-> "computer"]) @@
  ("Tablet" :> [from |-> "field", value |-> "tablet"]) @@
  ("Internet Provider" :> [from |-> "field", value |-> "internet"]) @@
  ("Comfort: Phone Calls" :> [from |-> "field", value |-> "comfort_calls"]) @@
  ("Comfort: Text Messages" :> [from |-> "field", value |-> "comfort_texts"]) @@
  ("Comfort: Email" :> [from |-> "field", value |-> "comfort_email"]) @@
  ("Comfort: Internet Browsing" :> [from |-> "field", value |-> "comfort_internet"]) @@
  ("Comfort: Taking Photos" :> [from |-> "field", value |-> "comfort_photos"]) @@
  ("Comfort: Using Apps" :> [from |-> "field", value |-> "comfort_apps"]) @@
  ("Comfort: Online Banking" :> [from |-> "field", value |-> "comfort_banking"]) @@
  ("Comfort: Video Calls" :> [from |-> "field", value |-> "comfort_video"]) @@
  ("Learning Goals" :> [from |-> "field", value |-> "learning_goals"]) @@
  ("Technology Frustrations" :> [from |-> "field", value |-> "tech_frustrations"]) @@
  ("Current Tech Support People" :> [from |-> "field", value |-> "current_support"]) @@
  ("Learning Style Preferences" :> [from |-> "field", value |-> "learning_style"])

\* An update step that also writes the key.
blueprint_3_properties_with_key ==
  ("Email (Primary Key)" :> [from |-> "field", value |-> "email"]) @@
  ("Client Status" :> [from |-> "literal", value |-> "Active Client"]) @@
  ("Street Address" :> [from |-> "field", value |-> "street_address"]) @@
  ("City" :> [from |-> "field", value |-> "city"]) @@
  ("State" :> [from |-> "field", value |-> "state"]) @@
  ("ZIP Code" :> [from |-> "field", value |-> "zip_code"]) @@
  ("Emergency Contact Name" :> [from |-> "field", value |-> "emergency_contact_name"]) @@
  ("Emergency Contact Phone" :> [from |-> "field", value |-> "emergency_contact_phone"]) @@
  ("Emergency Contact Relationship" :> [from |-> "field", value |-> "emergency_relationship"]) @@
  ("Service Start Date" :> [from |-> "field", value |-> "service_start_date"])

blueprint_3_properties ==
  ("Client Status" :> [from |-> "literal", value |-> "Active Client"]) @@
  ("Street Address" :> [from |-> "field", value |-> "street_address"]) @@
  ("City" :> [from |-> "field", value |-> "city"]) @@
  ("State" :> [from |-> "field", value |-> "state"]) @@
  ("ZIP Code" :> [from |-> "field", value |-> "zip_code"]) @@
  ("Emergency Contact Name" :> [from |-> "field", value |-> "emergency_contact_name"]) @@
  ("Emergency Contact Phone" :> [from |-> "field", value |-> "emergency_contact_phone"]) @@
  ("Emergency Contact Relationship" :> [from |-> "field", value |-> "emergency_relationship"]) @@
  ("Service Start Date" :> [from |-> "field", value |-> "service_start_date"])

\* A feedback step that writes the fourth option of the status.
blueprint_4_properties_service_complete ==
  ("Client Status" :> [from |-> "literal", value |-> "Service Complete"]) @@
  ("Latest Overall Rating (1-5)" :> [from |-> "field", value |-> "overall_rating"]) @@
  ("Confidence Before (1-5)" :> [from |-> "field", value |-> "confidence_before"]) @@
  ("Confidence After (1-5)" :> [from |-> "field", value |-> "confidence_after"]) @@
  ("Would Recommend NGP" :> [from |-> "field", value |-> "would_recommend"]) @@
  ("Most Valuable Skill Learned" :> [from |-> "field", value |-> "most_valuable_skill"]) @@
  ("Latest Feedback Comments" :> [from |-> "field", value |-> "additional_comments"])

blueprint_4_properties ==
  ("Client Status" :> [from |-> "literal", value |-> "Feedback Received"]) @@
  ("Latest Overall Rating (1-5)" :> [from |-> "field", value |-> "overall_rating"]) @@
  ("Confidence Before (1-5)" :> [from |-> "field", value |-> "confidence_before"]) @@
  ("Confidence After (1-5)" :> [from |-> "field", value |-> "confidence_after"]) @@
  ("Would Recommend NGP" :> [from |-> "field", value |-> "would_recommend"]) @@
  ("Most Valuable Skill Learned" :> [from |-> "field", value |-> "most_valuable_skill"]) @@
  ("Latest Feedback Comments" :> [from |-> "field", value |-> "additional_comments"])

\* ------------------------------------------------------------------------
\* Values, submissions and templates
\* ------------------------------------------------------------------------

Empty == <<>>

Filled == <<"x">>

\* What "{{zap_meta_human_now}}" renders: the time of the run, kept abstract.
Now == <<"n", "o", "w">>

\* The e-mail texts the forms deliver: one address in two spellings, a
\* second address, and a blank.
EmailInputs ==
  { <<"A", "@", "x">>, <<"a", "@", "x">>, <<"b", "@", "x">>, Empty }

\* A form field no table registers, which a form may still deliver.
UnmappedFields == {"newsletter_opt_in"}

\* The optional field of each kind that the model lets go blank (the table of
\* info_request has no optional field).
VariedField(kind) ==
  CASE kind = "info_request" -> "none"
    [] kind = "tech_readiness" -> "smartphone"
    [] kind = "service_agreement" -> "state"
    [] kind = "client_feedback" -> "overall_rating"

\* How a payload may depart from a fully filled-in form: <<first_name, the
\* varied optional field, the unregistered field>>.  Each kind has a complete
\* payload, one with another name (or a blank optional field) that also
\* carries the unregistered field, and one with the required first_name blank.
Variants(kind) ==
  IF kind = "info_request"
    THEN { << <<"J", "o">>, Filled, Empty >>,
           << <<"A", "l">>, Filled, Filled >>,
           << Empty, Filled, Empty >> }
    ELSE { << <<"A", "l">>, Filled, Empty >>,
           << <<"A", "l">>, Empty, Filled >>,
           << Empty, Filled, Empty >> }

\* The payloads a JotForm "New Submission" trigger delivers for a kind: every
\* field of the form, blank where the person filled nothing in.
Submissions ==
  [kind \in Kinds |->
     { [f \in FieldNames(kind) \cup UnmappedFields |->
          CASE f = "email" -> e
            [] f = "first_name" -> v[1]
            [] f = VariedField(kind) -> v[2]
            [] f \in UnmappedFields -> v[3]
            [] OTHER -> Filled] :
       e \in EmailInputs, v \in Variants(kind) }]

\* The value a property template takes in a run triggered by `fields`:
\* "{{1.f}}" is field f of step 1's payload, blank when there is none;
\* anything else is the literal text.
Render(t, fields) ==
  CASE t.from = "field" ->
         IF t.value \in DOMAIN fields THEN fields[t.value] ELSE Empty
    [] t.from = "meta" -> Now
    [] t.from = "literal" -> t.value

\* ------------------------------------------------------------------------
\* The Notion steps of the blueprints
\* ------------------------------------------------------------------------

\* A page is the function from the properties that hold a value to their
\* values; a property with no value is not in its domain.
BlankPage == <<>>

\* The value of property p of a page, Empty when it holds none.
PropertyValue(page, p) == IF p \in DOMAIN page THEN page[p] ELSE Empty

\* A template that renders blank: a field template of a blank field.
RendersBlank(t, fields) == t.from = "field" /\ Render(t, fields) = Empty

\* A page after a step writes `properties`: each listed property takes its
\* rendered value, and holds none when that is blank; the others keep theirs.
WriteProperties(page, properties, fields) ==
  LET held == {p \in (DOMAIN page) \cup (DOMAIN properties) :
                 p \in DOMAIN properties => ~RendersBlank(properties[p], fields)}
  IN [p \in held |->
        IF p \in DOMAIN properties THEN Render(properties[p], fields) ELSE page[p]]

\* "Find Database Item" on property "Email (Primary Key)" with value
\* "{{1.email}}": the first page whose property is that value, 0 when there
\* is none.  The value is passed as the form delivered it.
FindDatabaseItem(db, value) ==
  IF \E i \in 1..Len(db) : PropertyValue(db[i], "Email (Primary Key)") = value
    THEN CHOOSE i \in 1..Len(db) :
           /\ PropertyValue(db[i], "Email (Primary Key)") = value
           /\ \A j \in 1..(i - 1) :
                PropertyValue(db[j], "Email (Primary Key)") # value
    ELSE 0

\* A create step that posts the page again after the first response.
CreateDatabaseItemRetried(db, properties, fields) ==
  Append(Append(db, WriteProperties(BlankPage, properties, fields)),
         WriteProperties(BlankPage, properties, fields))

\* A create step that creates nothing when a page already has the key.
CreateDatabaseItemIfAbsent(db, properties, fields) ==
  IF FindDatabaseItem(db, Render(properties["Email (Primary Key)"], fields)) # 0
    THEN db
    ELSE Append(db, WriteProperties(BlankPage, properties, fields))

\* "Create Database Item" with a property list.
CreateDatabaseItem(db, properties, fields) ==
  Append(db, WriteProperties(BlankPage, properties, fields))

\* "Update Database Item" of page `id` with a property list.
UpdateDatabaseItem(db, id, properties, fields) ==
  [db EXCEPT ![id] = WriteProperties(@, properties, fields)]

\* What a run leaves in the task history: the trigger's kind and payload,
\* the page step 2 found (0: none), the page the run wrote (0: none), how it
\* ended, the store steps it executed, and the field errors it reported: no
\* step of any blueprint checks a field, so there are none.
Run(kind, fields, found, page, action, calls) ==
  [kind |-> kind, fields |-> fields, found |-> found, page |-> page,
   action |-> action, calls |-> calls, errors |-> {}]

\* Blueprint 1, "NGP Info Request Handler": find by e-mail, continue only if
\* nothing is found, create the record.  (Steps 5 and 6 send e-mail.)
blueprint_1(db, fields) ==
  LET found == FindDatabaseItem(db, fields["email"])
  IN IF found # 0
       THEN [database |-> db,
             run |-> Run("info_request", fields, found, 0, "filtered", <<"find">>)]
       ELSE [database |-> CreateDatabaseItem(db, blueprint_1_properties, fields),
             run |-> Run("info_request", fields, 0, Len(db) + 1, "created",
                         <<"find", "create">>)]

\* Blueprint 2, "NGP Tech Assessment Handler": find by e-mail, update page
\* "{{2.id}}".  With nothing found there is no page id and the update step
\* has nothing to write to.
blueprint_2(db, fields) ==
  LET found == FindDatabaseItem(db, fields["email"])
  IN IF found # 0
       THEN [database |-> UpdateDatabaseItem(db, found, blueprint_2_properties, fields),
             run |-> Run("tech_readiness", fields, found, found, "updated",
                         <<"find", "update">>)]
       ELSE [database |-> db,
             run |-> Run("tech_readiness", fields, 0, 0, "halted", <<"find">>)]

\* Blueprint 3, "NGP Service Agreement Handler": one update step with
\* "find_by": "Email (Primary Key)".
blueprint_3(db, fields) ==
  LET found == FindDatabaseItem(db, fields["email"])
  IN IF found # 0
       THEN [database |-> UpdateDatabaseItem(db, found, blueprint_3_properties, fields),
             run |-> Run("service_agreement", fields, found, found, "updated",
                         <<"find", "update">>)]
       ELSE [database |-> db,
             run |-> Run("service_agreement", fields, 0, 0, "halted", <<"find">>)]

\* Blueprint 4, "NGP Feedback Handler": one update step.  It names no page
\* and no find_by; the record is taken to be the one of the submitter's
\* e-mail, as in blueprint 3.
blueprint_4(db, fields) ==
  LET found == FindDatabaseItem(db, fields["email"])
  IN IF found # 0
       THEN [database |-> UpdateDatabaseItem(db, found, blueprint_4_properties, fields),
             run |-> Run("client_feedback", fields, found, found, "updated",
                         <<"find", "update">>)]
       ELSE [database |-> db,
             run |-> Run("client_feedback", fields, 0, 0, "halted", <<"find">>)]

\* self.zapier_blueprints: the Zap that a kind's form triggers.
zapier_blueprints(kind, db, fields) ==
  CASE kind = "info_request" -> blueprint_1(db, fields)
    [] kind = "tech_readiness" -> blueprint_2(db, fields)
    [] kind = "service_agreement" -> blueprint_3(db, fields)
    [] kind = "client_feedback" -> blueprint_4(db, fields)

\* ------------------------------------------------------------------------
\* Validation as the specification words it
\* ------------------------------------------------------------------------

\* Key normalisation as the specification words it (trim, lower-case).  No
\* step of the blueprints applies it.
LowerChar(c) ==
  CASE c = "A" -> "a"
    [] c = "B" -> "b"
    [] c = "J" -> "j"
    [] c = "X" -> "x"
    [] OTHER -> c

RECURSIVE TrimLeft(_)
TrimLeft(s) ==
  IF s # <<>> /\ Head(s) = " " THEN TrimLeft(Tail(s)) ELSE s

RECURSIVE TrimRight(_)
TrimRight(s) ==
  IF s # <<>> /\ s[Len(s)] = " " THEN TrimRight(SubSeq(s, 1, Len(s) - 1)) ELSE s

Normalize(s) == [i \in 1..Len(TrimRight(TrimLeft(s))) |-> LowerChar(TrimRight(TrimLeft(s))[i])]

\* The required fields a payload leaves blank.
RequiredMissing(kind, fields) ==
  {f \in RequiredFields(kind) : f \notin DOMAIN fields \/ fields[f] = Empty}

\* A submission the specification's validation lets through: no required
\* field blank and a key that is not blank after normalisation.
Accepted(kind, fields) ==
  /\ kind \in Kinds
  /\ RequiredMissing(kind, fields) = {}
  /\ Normalize(fields[KeyField(kind)]) # Empty

\* ------------------------------------------------------------------------
\* The state machine: submissions processed one at a time
\* ------------------------------------------------------------------------

NoRun == Run("none", Empty, 0, 0, "none", <<>>)

\* self.notion_database_id before a database exists, and the id Notion gives
\* the database it creates.
NoDatabase == "None"

DatabaseId == "database-1"

\* database_response before create_notion_database has received a response.
NoResponse == <<"none", "none">>

\* blueprints_database_id while self.zapier_blueprints is empty.
NoBlueprints == "no blueprints"

\* The "database_id" setting of a blueprint step:
\* f"{self.notion_database_id or 'YOUR_DATABASE_ID'}".
database_id(id) == IF id # NoDatabase THEN id ELSE "YOUR_DATABASE_ID"

\* The three tables of the agent object.
AllTables == {"forms_analysis", "master_schema", "zapier_blueprints"}

\* The Zap runs that may be in progress at once.
Zaps == {1, 2}

\* A Zap run slot in which nothing runs.
IdleZap == [pc |-> "idle"] @@ NoRun

\* The agent after run_complete_setup has succeeded and created the database:
\* main sleeps in its heartbeat loop, and the Zaps built from the blueprints
\* are switched on.
Deployed ==
  /\ notion_token = TRUE
  /\ notion_database_id = DatabaseId
  /\ setup_complete = TRUE
  /\ tables = AllTables
  /\ database_created = TRUE
  /\ pc = "heartbeat"
  /\ store_calls = <<>>
  /\ database_response = <<"create database", "200">>
  /\ blueprints_database_id = database_id(DatabaseId)

\* The sequential behaviours start from the deployed agent and a Notion store
\* (no unique constraint on any property), with no Zap run in progress.
Init ==
  /\ database = <<>>
  /\ zap_run = NoRun
  /\ runs = 0
  /\ all_accepted = TRUE
  /\ Deployed
  /\ store = [unique |-> FALSE, answers |-> TRUE]
  /\ zaps = [z \in Zaps |-> IdleZap]

\* One payload of `kind` run through its Zap from the trigger to the last
\* store step.
Handle(kind, fields) ==
  LET r == zapier_blueprints(kind, database, fields)
  IN /\ database' = r.database
     /\ zap_run' = r.run
     /\ all_accepted' = (all_accepted /\ Accepted(kind, fields))
     /\ runs' = runs + 1
     /\ UNCHANGED <<agent_vars, zaps>>

\* "NGP Info Request Handler" fires on a submission of the info request form.
InfoRequestHandler ==
  /\ runs < MaxRuns
  /\ \E fields \in Submissions["info_request"] : Handle("info_request", fields)

\* "NGP Tech Assessment Handler" fires on a submission of the readiness form.
TechAssessmentHandler ==
  /\ runs < MaxRuns
  /\ \E fields \in Submissions["tech_readiness"] : Handle("tech_readiness", fields)

\* "NGP Service Agreement Handler" fires on a submission of the agreement form.
ServiceAgreementHandler ==
  /\ runs < MaxRuns
  /\ \E fields \in Submissions["service_agreement"] :
       Handle("service_agreement", fields)

\* "NGP Feedback Handler" fires on a submission of the feedback form.
FeedbackHandler ==
  /\ runs < MaxRuns
  /\ \E fields \in Submissions["client_feedback"] : Handle("client_feedback", fields)

Next ==
  \/ InfoRequestHandler
  \/ TechAssessmentHandler
  \/ ServiceAgreementHandler
  \/ FeedbackHandler

Spec == Init /\ [][Next]_vars

\* ------------------------------------------------------------------------
\* main and run_complete_setup, one statement or one store response at a
\* time.  (The text of create_blueprint_page and the statements around it
\* stand at the wrong indentation in the file; they are taken where they
\* evidently belong: create_zapier_blueprints ends by calling
\* create_blueprint_page and returns the blueprints.)
\* ------------------------------------------------------------------------

\* What requests.post(search_url, ...) may come back with: status 200 and a
\* page, status 200 and no page, another status, or an exception (no
\* connection, or a response that never arrives whole).
SearchResponses == {"200 pages", "200 no pages", "not 200", "exception"}

\* What requests.post of a create may come back with.
CreateResponses == {"200", "not 200", "exception"}

\* The positions at which main waits in requests.post.
Posted == {"database_search", "database_create", "page_search", "page_create"}

\* __init__: the agent as constructed, before main calls run_complete_setup.
\* The environment decides whether NOTION_TOKEN is set and what the store
\* guarantees.
SystemInit ==
  /\ database = <<>>
  /\ zap_run = NoRun
  /\ runs = 0
  /\ all_accepted = TRUE
  /\ notion_token \in BOOLEAN
  /\ notion_database_id = NoDatabase
  /\ setup_complete = FALSE
  /\ tables = {}
  /\ database_created = FALSE
  /\ pc = "run_complete_setup"
  /\ store_calls = <<>>
  /\ store \in [unique : BOOLEAN, answers : {TRUE}]
  /\ database_response = NoResponse
  /\ blueprints_database_id = NoBlueprints
  /\ zaps = [z \in Zaps |-> IdleZap]

\* A run_complete_setup that goes on to its steps whatever check_credentials
\* returns.
check_credentials_ignored ==
  /\ pc = "run_complete_setup"
  /\ pc' = "analyze_ngp_forms"
  /\ UNCHANGED <<database, zap_run, runs, all_accepted, notion_token,
                 notion_database_id, setup_complete, tables, database_created,
                 store_calls, store, zaps,
                 database_response, blueprints_database_id>>

\* run_complete_setup, first statement: without a token it returns False and
\* main returns 1.
check_credentials ==
  /\ pc = "run_complete_setup"
  /\ pc' = IF notion_token THEN "analyze_ngp_forms" ELSE "exit 1"
  /\ UNCHANGED <<database, zap_run, runs, all_accepted, notion_token,
                 notion_database_id, setup_complete, tables, database_created,
                 store_calls, store, zaps,
                 database_response, blueprints_database_id>>

analyze_ngp_forms ==
  /\ pc = "analyze_ngp_forms"
  /\ tables' = tables \cup {"forms_analysis"}
  /\ pc' = "create_master_notion_schema"
  /\ UNCHANGED <<database, zap_run, runs, all_accepted, notion_token,
                 notion_database_id, setup_complete, database_created,
                 store_calls, store, zaps,
                 database_response, blueprints_database_id>>

create_master_notion_schema ==
  /\ pc = "create_master_notion_schema"
  /\ tables' = tables \cup {"master_schema"}
  /\ pc' = "create_notion_database"
  /\ UNCHANGED <<database, zap_run, runs, all_accepted, notion_token,
                 notion_database_id, setup_complete, database_created,
                 store_calls, store, zaps,
                 database_response, blueprints_database_id>>

\* create_notion_database up to its first request: without a token it
\* returns False, otherwise it posts the page search.
create_notion_database ==
  /\ pc = "create_notion_database"
  /\ IF notion_token
       THEN /\ store_calls' = <<"search">>
            /\ pc' = "database_search"
            /\ UNCHANGED database_created
       ELSE /\ database_created' = FALSE
            /\ pc' = "create_zapier_blueprints"
            /\ UNCHANGED store_calls
  /\ UNCHANGED <<database, zap_run, runs, all_accepted, notion_token,
                 notion_database_id, setup_complete, tables, store, zaps,
                 database_response, blueprints_database_id>>

\* The page search answers.  With status 200 and a page the method posts the
\* database; otherwise (and in the except clause) it returns False.
database_search_response ==
  /\ pc = "database_search"
  /\ store.answers
  /\ \E response \in SearchResponses :
       /\ database_response' = <<"search", response>>
       /\ IF response = "200 pages"
            THEN /\ store_calls' = Append(store_calls, "create database")
                 /\ pc' = "database_create"
                 /\ UNCHANGED database_created
            ELSE /\ store_calls' = <<>>
                 /\ database_created' = FALSE
                 /\ pc' = "create_zapier_blueprints"
  /\ UNCHANGED <<database, zap_run, runs, all_accepted, notion_token,
                 notion_database_id, setup_complete, tables, store, zaps,
                 blueprints_database_id>>

\* A create_notion_database that takes the id from whatever comes back.
database_create_response_id_unchecked ==
  /\ pc = "database_create"
  /\ store.answers
  /\ \E response \in CreateResponses :
       /\ database_response' = <<"create database", response>>
       /\ notion_database_id' = DatabaseId
       /\ database_created' = (response = "200")
  /\ store_calls' = <<>>
  /\ pc' = "create_zapier_blueprints"
  /\ UNCHANGED <<database, zap_run, runs, all_accepted, notion_token,
                 setup_complete, tables, store, zaps,
                 blueprints_database_id>>

\* The database create answers.  Status 200 sets notion_database_id and
\* returns True; any other status and the except clause return False.
database_create_response ==
  /\ pc = "database_create"
  /\ store.answers
  /\ \E response \in CreateResponses :
       /\ database_response' = <<"create database", response>>
       /\ IF response = "200"
            THEN /\ notion_database_id' = DatabaseId
                 /\ database_created' = TRUE
            ELSE /\ database_created' = FALSE
                 /\ UNCHANGED notion_database_id
  /\ store_calls' = <<>>
  /\ pc' = "create_zapier_blueprints"
  /\ UNCHANGED <<database, zap_run, runs, all_accepted, notion_token,
                 setup_complete, tables, store, zaps,
                 blueprints_database_id>>

\* create_zapier_blueprints fills the blueprints and calls
\* create_blueprint_page, which posts a page search of its own.
create_zapier_blueprints ==
  /\ pc = "create_zapier_blueprints"
  /\ tables' = tables \cup {"zapier_blueprints"}
  /\ blueprints_database_id' = database_id(notion_database_id)
  /\ IF notion_token
       THEN /\ store_calls' = <<"search">>
            /\ pc' = "page_search"
       ELSE /\ pc' = "generate_deployment_guide"
            /\ UNCHANGED store_calls
  /\ UNCHANGED <<database, zap_run, runs, all_accepted, notion_token,
                 notion_database_id, setup_complete, database_created,
                 store, zaps, database_response>>

\* create_blueprint_page: the page search answers.  With status 200 and a
\* page the method posts the blueprint page; otherwise it returns, and its
\* caller drops what it returns.
page_search_response ==
  /\ pc = "page_search"
  /\ store.answers
  /\ \E response \in SearchResponses :
       IF response = "200 pages"
         THEN /\ store_calls' = Append(store_calls, "create page")
              /\ pc' = "page_create"
         ELSE /\ store_calls' = <<>>
              /\ pc' = "generate_deployment_guide"
  /\ UNCHANGED <<database, zap_run, runs, all_accepted, notion_token,
                 notion_database_id, setup_complete, tables, database_created,
                 store, zaps,
                 database_response, blueprints_database_id>>

\* create_blueprint_page: the page create answers; the method returns.
page_create_response ==
  /\ pc = "page_create"
  /\ store.answers
  /\ \E response \in CreateResponses :
       /\ store_calls' = <<>>
       /\ pc' = "generate_deployment_guide"
  /\ UNCHANGED <<database, zap_run, runs, all_accepted, notion_token,
                 notion_database_id, setup_complete, tables, database_created,
                 store, zaps,
                 database_response, blueprints_database_id>>

\* generate_deployment_guide and the rest of run_complete_setup, which sets
\* setup_complete and returns True; main then sleeps in "while True".
generate_deployment_guide ==
  /\ pc = "generate_deployment_guide"
  /\ setup_complete' = TRUE
  /\ pc' = "heartbeat"
  /\ UNCHANGED <<database, zap_run, runs, all_accepted, notion_token,
                 notion_database_id, tables, database_created, store_calls,
                 store, zaps,
                 database_response, blueprints_database_id>>

\* The store stops answering while a request is posted.  requests.post is
\* called without a timeout, so nothing ends the wait.
StoreStopsAnswering ==
  /\ pc \in Posted
  /\ store.answers
  /\ store' = [store EXCEPT !.answers = FALSE]
  /\ UNCHANGED <<database, zap_run, runs, all_accepted, notion_token,
                 notion_database_id, setup_complete, tables, database_created,
                 pc, store_calls, zaps,
                 database_response, blueprints_database_id>>

\* ------------------------------------------------------------------------
\* The Zaps built from the blueprints, one step of the step list at a time,
\* with up to two runs in progress against the same database
\* ------------------------------------------------------------------------

\* The e-mail texts of the concurrent runs.
ConcurrentEmails == { <<"a", "@", "x">>, <<"b", "@", "x">> }

\* The payloads of the concurrent runs: complete ones.
ConcurrentSubmissions ==
  [kind \in Kinds |->
     {f \in Submissions[kind] :
        /\ f["email"] \in ConcurrentEmails
        /\ Accepted(kind, f)
        /\ VariedField(kind) \in DOMAIN f => f[VariedField(kind)] # Empty}]

\* The "properties" of the store step of a kind's blueprint.
blueprint_properties(kind) ==
  CASE kind = "info_request" -> blueprint_1_properties
    [] kind = "tech_readiness" -> blueprint_2_properties
    [] kind = "service_agreement" -> blueprint_3_properties
    [] kind = "client_feedback" -> blueprint_4_properties

\* The step after the trigger: "Find Database Item" in blueprints 1 and 2,
\* the update step in blueprints 3 and 4.
FirstStep(kind) ==
  IF kind \in {"info_request", "tech_readiness"} THEN "find" ELSE "update"

\* The task history entry of a run in a slot.
RunOf(zap) == [f \in DOMAIN NoRun |-> zap[f]]

\* What "Create Database Item" may come back with.  A store with a unique
\* key refuses a page whose key a page already has (DuplicateKeyError);
\* otherwise the page is created, or the call fails, or the page is created
\* and the response is lost.
CreateOutcomes(db, key) ==
  IF store.unique /\ FindDatabaseItem(db, key) # 0
    THEN {"DuplicateKeyError"}
    ELSE {"created", "failed", "response lost"}

\* Step 1 of every blueprint: a submission triggers a run in a free slot.
Trigger(z) ==
  /\ pc = "heartbeat"
  /\ notion_database_id # NoDatabase
  /\ zaps[z].pc \in {"idle", "ended"}
  /\ runs < MaxRuns
  /\ \E kind \in Kinds :
       \E fields \in ConcurrentSubmissions[kind] :
         /\ zaps' = [zaps EXCEPT ![z] =
                       [pc |-> FirstStep(kind)] @@
                       Run(kind, fields, 0, 0, "running", <<>>)]
         /\ all_accepted' = (all_accepted /\ Accepted(kind, fields))
  /\ runs' = runs + 1
  /\ UNCHANGED <<database, zap_run, agent_vars>>

\* Step 2 of blueprints 1 and 2: "Find Database Item".
FindStep(z) ==
  /\ zaps[z].pc = "find"
  /\ zaps' = [zaps EXCEPT
                ![z].found = FindDatabaseItem(database, zaps[z].fields["email"]),
                ![z].calls = Append(@, "find"),
                ![z].pc = IF zaps[z].kind = "info_request" THEN "filter" ELSE "update"]
  /\ UNCHANGED <<database, zap_run, runs, all_accepted, agent_vars>>

\* Step 3 of blueprint 1: "Only continue if Step 2 returns no results".
FilterStep(z) ==
  /\ zaps[z].pc = "filter"
  /\ IF zaps[z].found # 0
       THEN /\ zaps' = [zaps EXCEPT ![z].pc = "ended", ![z].action = "filtered"]
            /\ zap_run' = RunOf(zaps'[z])
       ELSE /\ zaps' = [zaps EXCEPT ![z].pc = "create"]
            /\ UNCHANGED zap_run
  /\ UNCHANGED <<database, runs, all_accepted, agent_vars>>

\* Step 4 of blueprint 1: "Create Database Item".  The step list has no step
\* for a step that fails: the run ends in error.
CreateStep(z) ==
  /\ zaps[z].pc = "create"
  /\ \E outcome \in CreateOutcomes(database, zaps[z].fields["email"]) :
       /\ database' =
            IF outcome \in {"created", "response lost"}
              THEN CreateDatabaseItem(database, blueprint_1_properties, zaps[z].fields)
              ELSE database
       /\ zaps' = [zaps EXCEPT
                     ![z].pc = "ended",
                     ![z].calls = Append(@, "create"),
                     ![z].page = IF outcome = "created" THEN Len(database) + 1 ELSE 0,
                     ![z].action = IF outcome = "created" THEN "created" ELSE "errored",
                     ![z].errors = IF outcome = "created" THEN {} ELSE {outcome}]
  /\ zap_run' = RunOf(zaps'[z])
  /\ UNCHANGED <<runs, all_accepted, agent_vars>>

\* The update step: step 3 of blueprint 2 writes page "{{2.id}}", the page
\* step 2 found; step 2 of blueprints 3 and 4 looks the page up itself.
UpdateStep(z) ==
  /\ zaps[z].pc = "update"
  /\ LET zap == zaps[z]
         id == IF zap.kind = "tech_readiness"
                 THEN zap.found
                 ELSE FindDatabaseItem(database, zap.fields["email"])
         calls == IF zap.kind = "tech_readiness" THEN zap.calls ELSE <<"find">>
     IN IF id # 0
          THEN /\ database' = UpdateDatabaseItem(database, id,
                                blueprint_properties(zap.kind), zap.fields)
               /\ zaps' = [zaps EXCEPT
                             ![z].pc = "ended", ![z].found = id, ![z].page = id,
                             ![z].action = "updated",
                             ![z].calls = Append(calls, "update")]
          ELSE /\ database' = database
               /\ zaps' = [zaps EXCEPT
                             ![z].pc = "ended", ![z].action = "halted",
                             ![z].calls = calls]
  /\ zap_run' = RunOf(zaps'[z])
  /\ UNCHANGED <<runs, all_accepted, agent_vars>>

SystemNext ==
  \/ check_credentials
  \/ analyze_ngp_forms
  \/ create_master_notion_schema
  \/ create_notion_database
  \/ database_search_response
  \/ database_create_response
  \/ create_zapier_blueprints
  \/ page_search_response
  \/ page_create_response
  \/ generate_deployment_guide
  \/ StoreStopsAnswering
  \/ \E z \in Zaps : Trigger(z)
  \/ \E z \in Zaps : FindStep(z)
  \/ \E z \in Zaps : FilterStep(z)
  \/ \E z \in Zaps : CreateStep(z)
  \/ \E z \in Zaps : UpdateStep(z)

SystemSpec == SystemInit /\ [][SystemNext]_vars

\* ------------------------------------------------------------------------
\* Vocabulary of the claims, continued
\* ------------------------------------------------------------------------

KeyOf(page) == PropertyValue(page, "Email (Primary Key)")

StatusOf(page) == page["Client Status"]

\* The pages whose normalised key is the normalised `key`.
SameKey(db, key) ==
  {i \in 1..Len(db) : Normalize(KeyOf(db[i])) = Normalize(key)}

MaxStatus(a, b) == IF Rank(a) >= Rank(b) THEN a ELSE b

\* The run that has just ended was triggered by an accepted submission, as
\* was every run before it.
JustAccepted == all_accepted' /\ zap_run'.kind \in Kinds

\* ------------------------------------------------------------------------
\* C1..C10
\* ------------------------------------------------------------------------

\* C1 (status monotonicity): no run triggered by an accepted submission
\* lowers the Client Status of any record in the lifecycle order.
C1_StatusNeverRegresses ==
  [][JustAccepted =>
       \A i \in 1..Len(database) :
         Rank(StatusOf(database'[i])) >= Rank(StatusOf(database[i]))]_vars

\* C2 (key uniqueness, sequential processing): in every reachable state no
\* two records have the same normalised key.
C2_OneRecordPerNormalizedKey ==
  all_accepted =>
  \A i, j \in 1..Len(database) :
    i # j => Normalize(KeyOf(database[i])) # Normalize(KeyOf(database[j]))

\* Every source field of the kind that targets property p is blank.
SourceBlank(kind, p, fields) ==
  \A m \in Range(forms_analysis[kind].fields) :
    m.notion_property = p => fields[m.field] = Empty

\* C3 (attribute monotonic enrichment): an attribute that was set, and that
\* the kind's mapping does not target or targets from a blank source field,
\* has the same value after the run as before.
C3_AttributesNeverCleared ==
  [][JustAccepted =>
       \A i \in 1..Len(database) :
         \A p \in PropertyNames \ {"Client Status"} :
           ( /\ p \in DOMAIN database[i]
             /\ \/ p \notin MappedProperties(zap_run'.kind)
                \/ SourceBlank(zap_run'.kind, p, zap_run'.fields) )
           => PropertyValue(database'[i], p) = database[i][p]]_vars

\* C4 (transition rule): after an accepted submission of kind K the status is
\* K's status on a new record when the key had none, and the maximum of the
\* previous status and K's status on the key's record when it had one.
C4_TransitionRule ==
  [][JustAccepted =>
       LET k == zap_run'.kind
           hit == SameKey(database, zap_run'.fields[KeyField(k)])
       IN IF hit = {}
            THEN /\ Len(database') = Len(database) + 1
                 /\ StatusOf(database'[Len(database')]) = forms_analysis[k].status
            ELSE \A i \in hit :
                   StatusOf(database'[i]) =
                     MaxStatus(StatusOf(database[i]), forms_analysis[k].status)]_vars

\* C5 (case-insensitive key resolution): an accepted submission whose key
\* differs from an existing record's key only in letter case or surrounding
\* blanks is found by the lookup and creates no second record.
C5_KeyResolvedIgnoringCase ==
  [][JustAccepted =>
       LET hit == SameKey(database, zap_run'.fields[KeyField(zap_run'.kind)])
       IN hit # {} => /\ zap_run'.found \in hit
                      /\ Len(database') = Len(database)]_vars

\* C6 (create when absent, every kind): an accepted submission whose key
\* matches no record creates exactly one record with that key and the kind's
\* status, and leaves every other record as it was.
C6_CreateWhenAbsent ==
  [][JustAccepted =>
       LET k == zap_run'.kind
           key == zap_run'.fields[KeyField(k)]
       IN SameKey(database, key) = {} =>
            /\ zap_run'.action = "created"
            /\ Len(database') = Len(database) + 1
            /\ Normalize(KeyOf(database'[Len(database')])) = Normalize(key)
            /\ StatusOf(database'[Len(database')]) = forms_analysis[k].status
            /\ \A i \in 1..Len(database) : database'[i] = database[i]]_vars

\* C7 (update when found): an accepted submission whose key the lookup finds
\* ends as an update that writes every mapped attribute the payload carries,
\* and the status does not drop below what it was.
C7_UpdateWhenFound ==
  [][JustAccepted =>
       LET k == zap_run'.kind
           id == zap_run'.found
       IN id # 0 =>
            /\ zap_run'.action = "updated"
            /\ \A m \in Range(forms_analysis[k].fields) :
                 (~m.primary_key /\ zap_run'.fields[m.field] # Empty)
                 => PropertyValue(database'[id], m.notion_property) = zap_run'.fields[m.field]
            /\ StatusOf(database'[id]) =
                 MaxStatus(StatusOf(database[id]), forms_analysis[k].status)]_vars

\* C8 (validation completeness): a run is rejected exactly when the payload
\* leaves a required field blank, and then reports every such field.
C8_RejectedWithAllMissingFields ==
  zap_run.kind \in Kinds =>
    /\ (zap_run.action = "rejected") <=>
         (RequiredMissing(zap_run.kind, zap_run.fields) # {})
    /\ zap_run.action = "rejected" =>
         zap_run.errors = RequiredMissing(zap_run.kind, zap_run.fields)

\* C9 (rejection leaves the store untouched): a submission that fails
\* validation makes no store call and changes no record.
C9_InvalidSubmissionTouchesNothing ==
  [][(zap_run'.kind \in Kinds /\ ~Accepted(zap_run'.kind, zap_run'.fields)) =>
       /\ zap_run'.calls = <<>>
       /\ database' = database]_vars

\* The values the model lets an unregistered field take.
UnmappedInputs == {Empty, Filled}

\* A payload with its unregistered fields set to u: the payloads that agree
\* with it on every field of the kind's mapping are exactly these.
WithUnmapped(fields, u) ==
  [f \in DOMAIN fields |-> IF f \in UnmappedFields THEN u ELSE fields[f]]

\* C10 (unmapped-field tolerance): whenever a payload is processed, every
\* payload of the same kind that differs from it only in unregistered fields
\* would have given, from the same store, the same store and the same run
\* (found page, written page, action, store calls, errors).
C10_UnmappedFieldsIgnored ==
  [][zap_run'.kind \in Kinds =>
       \A u \in UnmappedInputs :
         \/ WithUnmapped(zap_run'.fields, u) = zap_run'.fields
         \/ zapier_blueprints(zap_run'.kind, database,
                              WithUnmapped(zap_run'.fields, u)) =
              [database |-> database',
               run |-> [zap_run' EXCEPT !.fields = WithUnmapped(zap_run'.fields, u)]]]_vars

\* C10 witness: a payload carrying an unregistered field has been processed
\* to the end against a store that holds its record, and updated it.
C10_Witness ==
  /\ zap_run.action = "updated"
  /\ \E f \in UnmappedFields : zap_run.fields[f] # Empty
  /\ Len(database) > 0

\* ------------------------------------------------------------------------
\* C11..C20
\* ------------------------------------------------------------------------

\* The store steps of a run that the store itself failed (not a refusal).
StoreFailures == {"failed", "response lost"}

\* Two runs of the info request Zap for one key that have both ended and
\* whose lookups both found nothing: both looked before either created.
RacedPair(z1, z2) ==
  /\ z1 # z2
  /\ zaps[z1].pc = "ended" /\ zaps[z2].pc = "ended"
  /\ zaps[z1].kind = "info_request" /\ zaps[z2].kind = "info_request"
  /\ zaps[z1].fields["email"] = zaps[z2].fields["email"]
  /\ zaps[z1].found = 0 /\ zaps[z2].found = 0

\* The pages whose key is exactly `key`.
PagesOf(db, key) == {i \in 1..Len(db) : KeyOf(db[i]) = key}

\* C11 (race recovery under a unique-key store): when two first-time
\* submissions for one key race against a store that refuses the second
\* create, and the store fails no call, there is one record for the key,
\* neither run ends in error, and the run that lost the race ends as an
\* update of that record which carries its attributes.
C11_RaceRecovered ==
  \A z1, z2 \in Zaps :
    ( /\ RacedPair(z1, z2)
      /\ store.unique
      /\ zaps[z1].action = "created"
      /\ zaps[z2].errors \cap StoreFailures = {} )
    => /\ Cardinality(PagesOf(database, zaps[z1].fields["email"])) = 1
       /\ zaps[z2].action = "updated"
       /\ zaps[z2].errors = {}
       /\ zaps[z2].page = zaps[z1].page
       /\ PropertyValue(database[zaps[z1].page], "First Name") =
            zaps[z2].fields["first_name"]

\* C12 (duplicate race without store uniqueness): against a store that does
\* not refuse a create for an existing key, two runs for one key that both
\* looked before either created, and whose creates both reached the store,
\* leave two records for that key: find, filter, create does not prevent it.
C12_RaceDuplicatesWithoutUniqueness ==
  \A z1, z2 \in Zaps :
    ( /\ RacedPair(z1, z2)
      /\ ~store.unique
      /\ "failed" \notin zaps[z1].errors \cup zaps[z2].errors )
    => Cardinality(PagesOf(database, zaps[z1].fields["email"])) = 2

\* C12 witness: the interleaving has happened: both runs found nothing, both
\* ended "created", and the database holds two records for the key.
C12_Witness ==
  \E z1, z2 \in Zaps :
    /\ RacedPair(z1, z2)
    /\ ~store.unique
    /\ zaps[z1].action = "created" /\ zaps[z2].action = "created"
    /\ Cardinality(PagesOf(database, zaps[z1].fields["email"])) = 2

\* C13 (registry key-field invariant): every kind's table flags exactly one
\* field as primary key, that field is "email", it is required, and it maps
\* to "Email (Primary Key)"; a record that a run creates has the value of
\* that field as its key.
C13_OneRequiredKeyFieldPerKind ==
  /\ \A kind \in Kinds :
       LET keys == {m \in Range(forms_analysis[kind].fields) : m.primary_key}
       IN /\ Cardinality(keys) = 1
          /\ \A m \in keys : /\ m.field = "email"
                             /\ m.required
                             /\ m.notion_property = "Email (Primary Key)"
  /\ zap_run.action = "created" =>
       KeyOf(database[zap_run.page]) = zap_run.fields[KeyField(zap_run.kind)]

\* C13 witness: a record has been created whose key is the value of the
\* payload's key field.
C13_Witness ==
  /\ zap_run.action = "created"
  /\ KeyOf(database[zap_run.page]) = zap_run.fields[KeyField(zap_run.kind)]
  /\ KeyOf(database[zap_run.page]) # Empty

\* C14 (key immutability): no run changes the key of a record that exists,
\* and no update step lists "Email (Primary Key)" among what it writes.
C14_KeyNeverRewritten ==
  [][/\ \A i \in 1..Len(database) : KeyOf(database'[i]) = KeyOf(database[i])
     /\ \A kind \in Kinds \ {"info_request"} :
          "Email (Primary Key)" \notin DOMAIN blueprint_properties(kind)]_vars

\* C14 witness: an update step has written to a record that has a key.
C14_Witness ==
  /\ zap_run.action = "updated"
  /\ zap_run.kind = "service_agreement"
  /\ KeyOf(database[zap_run.page]) = zap_run.fields["email"]
  /\ KeyOf(database[zap_run.page]) # Empty

\* C15 (projection completeness): after a run of an accepted submission that
\* wrote a record, every attribute the kind's table maps from a field the
\* payload carries holds the submitted value.
C15_EveryMappedFieldWritten ==
  [][(JustAccepted /\ zap_run'.page # 0) =>
       \A m \in Range(forms_analysis[zap_run'.kind].fields) :
         zap_run'.fields[m.field] # Empty =>
           PropertyValue(database'[zap_run'.page], m.notion_property) =
             zap_run'.fields[m.field]]_vars

\* How often a request occurs among those posted.
Count(calls, op) == Cardinality({i \in 1..Len(calls) : calls[i] = op})

\* C16 (no silent retry): no run of create_notion_database or of
\* create_blueprint_page posts its create twice, and the database id is set
\* exactly when the method reported success; no Zap run executes its create
\* step twice, a run whose store step failed has ended in error, and the
\* database never holds more records than runs were triggered.
C16_NoSilentRetry ==
  /\ Count(store_calls, "create database") <= 1
  /\ Count(store_calls, "create page") <= 1
  /\ database_created <=> (notion_database_id # NoDatabase)
  /\ \A z \in Zaps :
       /\ Count(zaps[z].calls, "create") <= 1
       /\ zaps[z].errors # {} =>
            (zaps[z].pc = "ended" /\ zaps[z].action = "errored")
  /\ Len(database) <= runs

\* C16 witness: a create step's response was lost: the record exists, the
\* run has ended in error, and its create step ran once.
C16_Witness ==
  \E z \in Zaps :
    /\ zaps[z].errors = {"response lost"}
    /\ zaps[z].calls = <<"find", "create">>
    /\ PagesOf(database, zaps[z].fields["email"]) # {}

\* C17 (bounded store calls): whenever main waits in a request, some step
\* can follow: the response, or a timeout.
C17_NoCallWaitsForever ==
  pc \in Posted => ENABLED SystemNext

\* The status of page id after a run of kind, fields from db.
StatusAfter(kind, fields, db, id) ==
  StatusOf(zapier_blueprints(kind, db, fields).database[id])

\* C18 (order independence of the final status): when an accepted submission
\* has updated a record, any other accepted submission for the same key that
\* also updates it leaves the same final status whichever of the two is
\* processed first.
C18_FinalStatusOrderIndependent ==
  [][(JustAccepted /\ zap_run'.action = "updated") =>
       \A k2 \in Kinds :
         \A f2 \in Submissions[k2] :
           ( /\ Accepted(k2, f2)
             /\ f2["email"] = zap_run'.fields["email"]
             /\ zapier_blueprints(k2, database, f2).run.action = "updated" )
           => StatusAfter(k2, f2, database', zap_run'.page) =
                StatusAfter(zap_run'.kind, zap_run'.fields,
                            zapier_blueprints(k2, database, f2).database,
                            zap_run'.page)]_vars

\* The properties of the schema a step can write an attribute to: not a
\* formula, not a time Notion sets, and not the status.
WritableProperties ==
  {p.name : p \in {q \in Range(master_schema_properties) :
                     q.type \notin {"formula", "created_time", "last_edited_time"}}}
    \ {"Client Status"}

\* C19 (schema closure): every attribute a kind's table targets, and every
\* attribute a blueprint writes, is a writable property of the master schema;
\* every status a kind produces, and every status a blueprint writes, is an
\* option of "Client Status"; so every record holds only writable properties
\* of the schema and a status that is an option.
C19_SchemaClosed ==
  /\ \A kind \in Kinds :
       /\ MappedProperties(kind) \subseteq WritableProperties
       /\ forms_analysis[kind].status \in Range(ClientStatusOptions)
       /\ \A p \in DOMAIN blueprint_properties(kind) :
            IF p = "Client Status"
              THEN /\ blueprint_properties(kind)[p].from = "literal"
                   /\ blueprint_properties(kind)[p].value \in Range(ClientStatusOptions)
              ELSE p \in WritableProperties
  /\ \A i \in 1..Len(database) :
       /\ DOMAIN database[i] \subseteq WritableProperties \cup {"Client Status"}
       /\ StatusOf(database[i]) \in Range(ClientStatusOptions)

\* C19 witness: a record has been written by a create and by an update step,
\* and every property it holds is one of the schema.
C19_Witness ==
  /\ zap_run.action = "updated"
  /\ zap_run.kind = "client_feedback"
  /\ DOMAIN database[zap_run.page] \subseteq PropertyNames
  /\ StatusOf(database[zap_run.page]) \in Range(ClientStatusOptions)

\* The statuses the four kinds produce.
ProducedStatuses == {forms_analysis[kind].status : kind \in Kinds}

\* C20 (unreachable lifecycle stage): no record ever has a status other than
\* the four the kinds produce; "Service Complete", the fourth of the five
\* options of the schema, is not among them.
C20_ServiceCompleteUnreachable ==
  /\ \A i \in 1..Len(database) : StatusOf(database[i]) \in ProducedStatuses
  /\ ProducedStatuses =
       {"Lead - Info Requested", "Assessment Complete", "Active Client",
        "Feedback Received"}
  /\ Len(ClientStatusOptions) = 5
  /\ ClientStatusOptions[4] = "Service Complete"

\* C20 witness: a record has passed the stage: it holds the last status of
\* the lifecycle.
C20_Witness ==
  \E i \in 1..Len(database) : StatusOf(database[i]) = "Feedback Received"

\* ------------------------------------------------------------------------
\* C21..C22: the credential gate and the database id
\* ------------------------------------------------------------------------

\* C21 (credential gate): when NOTION_TOKEN is not set, main never gets past
\* the first statement of run_complete_setup: no request is posted, the three
\* tables stay empty, notion_database_id stays None, setup_complete stays
\* False and the store is untouched; the check of the credentials can be
\* taken, and once main has returned 1 nothing more happens.
C21_CredentialGate ==
  ~notion_token =>
    /\ pc \in {"run_complete_setup", "exit 1"}
    /\ store_calls = <<>>
    /\ tables = {}
    /\ notion_database_id = NoDatabase
    /\ setup_complete = FALSE
    /\ database_created = FALSE
    /\ database = <<>>
    /\ runs = 0
    /\ pc = "run_complete_setup" => ENABLED check_credentials
    /\ pc = "exit 1" => ~ENABLED SystemNext

\* C21 witness: without a token run_complete_setup has returned False and
\* main has returned 1.
C21_Witness ==
  /\ ~notion_token
  /\ pc = "exit 1"
  /\ tables = {}
  /\ setup_complete = FALSE

\* The steps of main itself: those of run_complete_setup and the responses
\* it waits for.
SetupStep ==
  \/ check_credentials
  \/ analyze_ngp_forms
  \/ create_master_notion_schema
  \/ create_notion_database
  \/ database_search_response
  \/ database_create_response
  \/ create_zapier_blueprints
  \/ page_search_response
  \/ page_create_response
  \/ generate_deployment_guide

\* The positions of main after create_notion_database has returned.
AfterCreation ==
  {"create_zapier_blueprints", "page_search", "page_create",
   "generate_deployment_guide", "heartbeat"}

\* C22 (database-id consistency): notion_database_id is set exactly when the
\* database create came back with status 200, and that is exactly when
\* create_notion_database returned True; after any other end of the method
\* the id is None.  The blueprints exist only after the creation attempt and
\* carry the real id if creation succeeded and 'YOUR_DATABASE_ID' otherwise.
\* With a token and a store that answers, run_complete_setup always has a
\* next step whatever the creation attempt returned, and it ends with
\* setup_complete set, the three tables filled and main in its heartbeat.
C22_DatabaseIdConsistency ==
  /\ notion_database_id # NoDatabase
       <=> database_response = <<"create database", "200">>
  /\ notion_database_id \in {NoDatabase, DatabaseId}
  /\ database_created <=> notion_database_id # NoDatabase
  /\ pc \in AfterCreation /\ database_response # <<"create database", "200">>
       => /\ notion_database_id = NoDatabase
          /\ database_created = FALSE
  /\ IF "zapier_blueprints" \in tables
       THEN /\ pc \in AfterCreation \ {"create_zapier_blueprints"}
            /\ blueprints_database_id =
                 (IF database_created THEN DatabaseId ELSE "YOUR_DATABASE_ID")
       ELSE blueprints_database_id = NoBlueprints
  /\ setup_complete <=> pc = "heartbeat"
  /\ pc = "heartbeat" => tables = AllTables
  /\ (notion_token /\ store.answers /\ pc \notin {"heartbeat", "exit 1"})
       => ENABLED SetupStep

\* C22 witness: the database create came back with another status than 200,
\* and run_complete_setup went on to the end: blueprints with the
\* placeholder, setup_complete set, main in its heartbeat.
C22_Witness ==
  /\ database_response = <<"create database", "not 200">>
  /\ notion_database_id = NoDatabase
  /\ database_created = FALSE
  /\ blueprints_database_id = "YOUR_DATABASE_ID"
  /\ setup_complete = TRUE
  /\ pc = "heartbeat"

====
